---- MODULE Spec2Model ----
(***************************************************************************)
(* A model of the OctoJS middleware engine (packages/app/src/composer.ts,  *)
(* packages/app/src/context.ts).                                           *)
(*                                                                         *)
(* Composers live in a heap: `handler[c]` is the handler field of composer *)
(* c, a middleware function written as a term.  A dispatch is a small      *)
(* machine: a control (`ctl`), a stack of suspended user functions and     *)
(* error boundaries, the `nextCalled` flags of the activations of concat   *)
(* and errorBoundary, and the trace of what the user functions did.        *)
(***************************************************************************)
EXTENDS Integers, Sequences, FiniteSets, TLC

\* Number of combinator calls (use, filter, branch, ...) made on the tree.
MaxRegs == 3

VARIABLES
    handler,   \* handler[c]: the `handler` field of composer c (composer 1 is the root)
    regs,      \* the combinator calls made so far, in order
    nfn,       \* how many function values (middleware, handlers, closures) were created
    run        \* run[d]: the state of dispatch d

vars == <<handler, regs, nfn, run>>

DispatchIds == {"d1", "d2"}

(***************************************************************************)
(* Values                                                                  *)
(***************************************************************************)

\* context.ts: a Context holds the event name and the payload; the payload may
\* or may not have an `action` field.
Context(eventName, hasAction, action) ==
    [eventName |-> eventName, event |-> [hasAction |-> hasAction, action |-> action]]

CtxPush == Context("push", FALSE, "")
CtxOpened == Context("issues", TRUE, "opened")
CtxClosed == Context("issues", TRUE, "closed")
Contexts == {CtxPush, CtxOpened, CtxClosed}

\* A value a user function throws.  `by` is the identity of the function whose
\* code raised it (distinct functions throw distinct values).
Thrown(type, name, message, by) ==
    [type |-> type, name |-> name, message |-> message, by |-> by]

NoVal == Thrown("undefined", "", "", 0)

\* concat: the Error thrown when the continuation is invoked again (the
\* message is written here without the back quotes around the word next)
NextAlreadyCalled == "next already called before!"

DoubleNextError(by) == Thrown("Error", "Error", NextAlreadyCalled, by)

IsDoubleNext(v) == v.type = "Error" /\ v.message = NextAlreadyCalled

\* what a call gives: a value it returns, or an error it throws
Returned(v) == [throws |-> FALSE, value |-> v, error |-> NoVal]
Raised(e) == [throws |-> TRUE, value |-> "", error |-> e]

\* String(error).substring(0, 50): the second argument
SubstringEnd == 50

Min(a, b) == IF a < b THEN a ELSE b

\* s.substring(indexStart, indexEnd), for 0 <= indexStart <= indexEnd
substring(s, indexStart, indexEnd) ==
    SubSeq(s, Min(indexStart, Len(s)) + 1, Min(indexEnd, Len(s)))

\* the template literal `${error}` for a value that is no Error object: the
\* text of a boolean, a number or a bigint (held in the field message); a
\* symbol cannot be converted to a string and the conversion throws
CannotConvertSymbol == "Cannot convert a Symbol value to a string"
TemplateLiteral(error) ==
    IF error.type = "symbol"
    THEN Raised(Thrown("Error", "TypeError", CannotConvertSymbol, 0))
    ELSE Returned(error.message)

InlinedTypes == {"bigint", "boolean", "number", "symbol"}

GenerateNoTruncation(error) ==
    IF error.type = "Error"
    THEN Returned(error.name \o " in middleware: " \o error.message)
    ELSE LET msg == "Non-error value of type " \o error.type \o " thrown in middleware"
         IN CASE error.type \in InlinedTypes ->
                   LET text == TemplateLiteral(error) IN
                   IF text.throws THEN text ELSE Returned(msg \o ": " \o text.value)
              [] error.type = "string" -> Returned(msg \o ": " \o error.message)
              [] OTHER -> Returned(msg \o "!")

\* generateBotErrorMessage
generateBotErrorMessage(error) ==
    IF error.type = "Error"
    THEN Returned(error.name \o " in middleware: " \o error.message)
    ELSE LET msg == "Non-error value of type " \o error.type \o " thrown in middleware"
         IN CASE error.type \in InlinedTypes ->
                   LET text == TemplateLiteral(error) IN
                   IF text.throws THEN text ELSE Returned(msg \o ": " \o text.value)
              [] error.type = "string" ->
                   Returned(msg \o ": " \o substring(error.message, 0, SubstringEnd))
              [] OTHER -> Returned(msg \o "!")

\* class BotError: the thrown value paired with the context, with the message
\* super(generateBotErrorMessage(error)) gave it
BotError(error, ctx) ==
    [name |-> "BotError", message |-> generateBotErrorMessage(error).value,
     error |-> error, ctx |-> ctx]

(***************************************************************************)
(* User code: a middleware (or an error handler) is a straight-line script *)
(* of awaited calls of its continuation and throws.                        *)
(***************************************************************************)
OpNext == [op |-> "next", type |-> "", name |-> "", message |-> ""]
OpThrow(type, name, message) ==
    [op |-> "throw", type |-> type, name |-> name, message |-> message]
\* an error handler throwing the value it was handed (err.error)
OpRethrow == [op |-> "rethrow", type |-> "", name |-> "", message |-> ""]

\* a middleware awaiting its continuation inside a try statement with an empty
\* catch block: try { await next() } catch (e) {}
OpTryNext == [op |-> "trynext", type |-> "", name |-> "", message |-> ""]

\* a middleware writing a payload field: ctx.event.action = action
OpSet(action) == [op |-> "set", type |-> "", name |-> "", message |-> action]

ThrowString == OpThrow("string", "", "nonerror")
ThrowTypeError == OpThrow("Error", "TypeError", "bad")

\* throws of values of the other kinds; for a primitive the field message
\* holds String(value)
LongString == "abcdefghijklmnopqrstuvwxyzABCDEFGHIJKLMNOPQRSTUVWXYZ0123456789"
ThrowLongString == OpThrow("string", "", LongString)
ThrowBoolean == OpThrow("boolean", "", "true")
ThrowNumber == OpThrow("number", "", "42")
ThrowBigInt == OpThrow("bigint", "", "10")
ThrowSymbol == OpThrow("symbol", "", "Symbol(oops)")
ThrowUndefined == OpThrow("undefined", "", "")
ThrowObject == OpThrow("object", "", "")

BodyStop == <<>>
BodyNext == <<OpNext>>
BodyNextNext == <<OpNext, OpNext>>
BodyThrow == <<ThrowString>>
BodyThrowError == <<ThrowTypeError>>
BodyNextThrow == <<OpNext, ThrowTypeError>>
BodyRethrow == <<OpRethrow>>
BodySetNext == <<OpSet("closed"), OpNext>>
BodyNextSet == <<OpNext, OpSet("closed")>>
BodyTryNext == <<OpTryNext>>
BodySetThrow == <<OpSet("closed"), ThrowString>>

(***************************************************************************)
(* Middleware terms                                                        *)
(***************************************************************************)

\* a user middleware function
Fn(id, body) == [t |-> "fn", id |-> id, body |-> body]

\* a MiddlewareObj: composer c of the heap
Obj(c) == [t |-> "obj", c |-> c]

\* function pass(_ctx, next) { return next(); }
pass == [t |-> "pass"]

\* const leaf = () => Promise.resolve()
leaf == [t |-> "leaf"]

\* flatten: a function is returned as it is; an object becomes
\* (ctx, next) => mw.middleware()(ctx, next), which reads the composer's
\* handler when it is called.
flatten(mw) ==
    IF mw.t = "obj" THEN [t |-> "flat", c |-> mw.c] ELSE mw

ConcatSwapped(first, andThen) ==
    [t |-> "concat", first |-> andThen, andThen |-> first]

\* concat: the function that runs `first` with a continuation wrapping `andThen`
concat(first, andThen) ==
    [t |-> "concat", first |-> first, andThen |-> andThen]

RECURSIVE ReduceConcat(_, _)
ReduceConcat(acc, rest) ==
    IF rest = <<>> THEN acc
    ELSE ReduceConcat(concat(acc, flatten(Head(rest))), Tail(rest))

\* a constructor whose composer without middleware returns without invoking
\* the continuation
ComposerEmptyStops(middleware) ==
    IF Len(middleware) = 0 THEN Fn(0, <<>>)
    ELSE ReduceConcat(flatten(Head(middleware)), Tail(middleware))

\* Composer constructor: the handler of new Composer(...middleware)
Composer(middleware) ==
    IF Len(middleware) = 0 THEN pass
    ELSE ReduceConcat(flatten(Head(middleware)), Tail(middleware))

\* flatten(new Composer(...arr)) for a composer that is never stored: its
\* middleware() returns the handler it was built with.
FlattenNew(arr) == [t |-> "flatv", handler |-> Composer(arr)]

(***************************************************************************)
(* Predicates, routers and lazy factories: user code that is a function of *)
(* the context.                                                            *)
(***************************************************************************)

\* a user predicate, given by the contexts it holds of
Pred(truth) == [kind |-> "user", truth |-> truth]

\* drop: async (ctx) => !(await predicate(ctx))
NotPred(predicate) == [kind |-> "not", p |-> predicate]

\* a query string handed to on, and an array of them
Query(q) == [t |-> "string", value |-> q]

\* q.split('.'): the pieces of q between the dots, left to right
RECURSIVE SplitFrom(_, _, _)
SplitFrom(rest, piece, pieces) ==
    IF Len(rest) = 0 THEN Append(pieces, piece)
    ELSE IF Head(rest) = "." THEN SplitFrom(Tail(rest), "", Append(pieces, piece))
    ELSE SplitFrom(Tail(rest), piece \o Head(rest), pieces)

split(q) == SplitFrom(q, "", <<>>)

QueryMatchesEventOnly(q, c) == split(q)[1] = c.eventName

\* on: the callback of query.some
\*   const [event, action] = q.split('.');
\*   if (event !== c.eventName) return false;
\*   if (action === undefined) return true;
\*   return 'action' in c.event && action === c.event.action;
QueryMatches(q, c) ==
    LET parts == split(q)
        event == parts[1]
    IN IF event # c.eventName THEN FALSE
       ELSE IF Len(parts) < 2 THEN TRUE
       ELSE c.event.hasAction /\ parts[2] = c.event.action

\* on: the predicate handed to filter
\*   const query = Array.isArray(filter) ? filter : [filter]; return query.some(...)
OnPred(queries) == [kind |-> "on", filter |-> queries]

OnPredHolds(queries, c) ==
    LET query == IF queries.t = "array" THEN queries.items ELSE <<queries>>
    IN \E i \in DOMAIN query : QueryMatches(query[i].value, c)

RECURSIVE EvalPred(_, _)
EvalPred(p, ctx) ==
    CASE p.kind = "user" -> ctx \in p.truth
      [] p.kind = "not" -> ~EvalPred(p.p, ctx)
      [] p.kind = "on" -> OnPredHolds(p.filter, ctx)

\* what a router returns: undefined or a property key
Undefined == [defined |-> FALSE, key |-> ""]
Key(k) == [defined |-> TRUE, key |-> k]

\* Properties every object literal inherits from Object.prototype (two of
\* them): toString is a function that returns a string and never calls its
\* second argument.
ObjectPrototypeKeys == {"toString", "constructor"}
Builtin == 0
InheritedProperty(k) == Fn(Builtin, BodyStop)

\* routeHandlers[route]: the own property, else the inherited one, else undefined
HasProperty(routeHandlers, k) ==
    k \in DOMAIN routeHandlers \/ k \in ObjectPrototypeKeys
GetProperty(routeHandlers, k) ==
    IF k \in DOMAIN routeHandlers THEN routeHandlers[k] ELSE InheritedProperty(k)

\* route: the factory handed to lazy
\*   route === undefined || !routeHandlers[route] ? fallback : routeHandlers[route]
RouteSelect(route, routeHandlers, fallback) ==
    IF ~route.defined \/ ~HasProperty(routeHandlers, route.key)
    THEN fallback
    ELSE GetProperty(routeHandlers, route.key)

BranchSelectSwapped(predicate, trueMiddleware, falseMiddleware, ctx) ==
    IF EvalPred(predicate, ctx) THEN falseMiddleware ELSE trueMiddleware

\* branch: the factory handed to lazy
\*   (await predicate(ctx)) ? trueMiddleware : falseMiddleware
BranchSelect(predicate, trueMiddleware, falseMiddleware, ctx) ==
    IF EvalPred(predicate, ctx) THEN trueMiddleware ELSE falseMiddleware

\* a lazy that hands every dispatch what the factory made for a push event
MiddlewareFactoryStale(factory, ctx) ==
    CASE factory.kind = "table" -> factory.table[CtxPush]
      [] OTHER -> pass

\* lazy: const middleware = await middlewareFactory(ctx), for the factories
\* branch and route build and for a user factory given as a table
MiddlewareFactory(factory, ctx) ==
    CASE factory.kind = "branch" ->
           BranchSelect(factory.predicate, factory.trueMiddleware,
                        factory.falseMiddleware, ctx)
      [] factory.kind = "route" ->
           RouteSelect(factory.router[ctx], factory.routeHandlers, factory.fallback)
      [] factory.kind = "table" -> factory.table[ctx]

\* MaybeArray<Middleware>: an array of middleware, or one middleware
Array(items) == [t |-> "array", items |-> items]

\* lazy: const arr = Array.isArray(middleware) ? middleware : [middleware];
ToArray(middleware) ==
    IF middleware.t = "array" THEN middleware.items ELSE <<middleware>>

\* the closure lazy registers; id names the closure
LazyFn(id, factory) == [t |-> "lazy", id |-> id, factory |-> factory]

\* the closure errorBoundary registers
BoundaryFn(id, bound, errorHandler) ==
    [t |-> "boundary", id |-> id, bound |-> bound, errorHandler |-> errorHandler]

(***************************************************************************)
(* The combinators, as functions of the heap of composers.  Each returns   *)
(* the new heap and the composer the method returns.                       *)
(***************************************************************************)

\* a use that wires one composer into the parent and returns another one,
\* built from the same middleware
UseDetached(heap, this, middleware) ==
    LET composer == Len(heap) + 1
        h1 == Append(Append(heap, Composer(middleware)), Composer(middleware))
    IN [heap |-> [h1 EXCEPT ![this] = concat(heap[this], flatten(Obj(composer)))],
        ret |-> composer + 1]

\* a use that places the new composer before what the parent already holds
UsePrepend(heap, this, middleware) ==
    LET composer == Len(heap) + 1
        h1 == Append(heap, Composer(middleware))
    IN [heap |-> [h1 EXCEPT ![this] = concat(flatten(Obj(composer)), heap[this])],
        ret |-> composer]

\* use: const composer = new Composer(...middleware);
\*      this.handler = concat(this.handler, flatten(composer)); return composer
use(heap, this, middleware) ==
    LET composer == Len(heap) + 1
        h1 == Append(heap, Composer(middleware))
    IN [heap |-> [h1 EXCEPT ![this] = concat(heap[this], flatten(Obj(composer)))],
        ret |-> composer]

\* lazy: return this.use(async (ctx, next) => {...})
lazy(heap, this, id, factory) == use(heap, this, <<LazyFn(id, factory)>>)

\* branch: return this.lazy(...)
branch(heap, this, id, predicate, trueMiddleware, falseMiddleware) ==
    lazy(heap, this, id,
         [kind |-> "branch", predicate |-> predicate,
          trueMiddleware |-> trueMiddleware, falseMiddleware |-> falseMiddleware])

\* filter: const composer = new Composer(...middleware);
\*         this.branch(predicate, composer, pass); return composer
filter(heap, this, id, predicate, middleware) ==
    LET composer == Len(heap) + 1
        h1 == Append(heap, Composer(middleware))
    IN [heap |-> branch(h1, this, id, predicate, Obj(composer), pass).heap,
        ret |-> composer]

DropNoNegation(heap, this, id, predicate, middleware) ==
    filter(heap, this, id, predicate, middleware)

\* drop: return this.filter(async (ctx) => !(await predicate(ctx)), ...middleware)
drop(heap, this, id, predicate, middleware) ==
    filter(heap, this, id, NotPred(predicate), middleware)

\* on: return this.filter((c) => {...}, ...middleware)
on(heap, this, id, queries, middleware) ==
    filter(heap, this, id, OnPred(queries), middleware)

\* route: return this.lazy(...)
route(heap, this, id, router, routeHandlers, fallback) ==
    lazy(heap, this, id,
         [kind |-> "route", router |-> router, routeHandlers |-> routeHandlers,
          fallback |-> fallback])

\* errorBoundary: const composer = new Composer(...middleware);
\*                const bound = flatten(composer); this.use(async ...); return composer
errorBoundary(heap, this, id, errorHandler, middleware) ==
    LET composer == Len(heap) + 1
        h1 == Append(heap, Composer(middleware))
        bound == flatten(Obj(composer))
    IN [heap |-> use(h1, this, <<BoundaryFn(id, bound, errorHandler)>>).heap,
        ret |-> composer]

(***************************************************************************)
(* A dispatch                                                              *)
(***************************************************************************)

NoCtx == Context("", FALSE, "")

\* the control of a dispatch: what happens next
CtlCall(fn, k) == [op |-> "call", fn |-> fn, k |-> k]     \* fn(ctx, k)
CtlInvoke(k) == [op |-> "invoke", k |-> k]                \* k()
CtlRet == [op |-> "ret"]                                  \* the awaited promise resolved
CtlThrow(err) == [op |-> "throw", err |-> err]            \* the awaited promise rejected
CtlNone == [op |-> "none"]

\* ctx is the context object of the dispatch, with the payload as it is now;
\* given is what it was when handle was called
Idle ==
    [status |-> "idle", ctx |-> NoCtx, given |-> NoCtx, ctl |-> CtlNone,
     stack |-> <<>>, flags |-> <<>>, trace |-> <<>>, error |-> NoVal]

\* an entry of the trace: what function `who` did, with the context it holds
Ev(e, who, val, ctx) == [e |-> e, who |-> who, val |-> val, ctx |-> ctx]

\* continuations
\* concat: async () => { if (nextCalled) throw ...; else nextCalled = true;
\*                       await andThen(ctx, next); }
ConcatNext(flag, andThen, next) ==
    [t |-> "cnext", flag |-> flag, andThen |-> andThen, next |-> next]
\* errorBoundary: const cont = () => ((nextCalled = true), Promise.resolve())
\* (id names the errorBoundary closure that made it)
Cont(flag, id) == [t |-> "cont", flag |-> flag, id |-> id]

\* frames: a user function suspended in `await next()`, or an errorBoundary
\* closure suspended in `await bound(ctx, cont)` / `await errorHandler(...)`
UserFrame(f, id, body, next, err) ==
    [f |-> f, id |-> id, body |-> body, pc |-> 1, next |-> next, err |-> err]
BoundaryFrame(id, flag, errorHandler, next) ==
    [f |-> "boundary", id |-> id, phase |-> "try", flag |-> flag,
     errorHandler |-> errorHandler, next |-> next]

Top(stack) == stack[Len(stack)]
Pop(stack) == SubSeq(stack, 1, Len(stack) - 1)
SetTop(stack, fr) == [stack EXCEPT ![Len(stack)] = fr]

\* The user function on top of the stack goes on from its pc: to the end of its
\* body (it returns), to an awaited call of its continuation, or to a throw.
RunBody(st) ==
    LET fr == Top(st.stack) IN
    IF fr.pc > Len(fr.body)
    THEN [st EXCEPT !.stack = Pop(@),
                    !.trace = Append(@, Ev("end", fr.id, NoVal, st.ctx)),
                    !.ctl = CtlRet]
    ELSE LET o == fr.body[fr.pc] IN
         CASE o.op \in {"next", "trynext"} ->
                [st EXCEPT !.stack = SetTop(@, [fr EXCEPT !.pc = @ + 1]),
                           !.trace = Append(@, Ev("next", fr.id, NoVal, st.ctx)),
                           !.ctl = CtlInvoke(fr.next)]
           [] o.op = "throw" ->
                LET v == Thrown(o.type, o.name, o.message, fr.id) IN
                [st EXCEPT !.stack = Pop(@),
                           !.trace = Append(@, Ev("throw", fr.id, v, st.ctx)),
                           !.ctl = CtlThrow(v)]
           [] o.op = "rethrow" ->
                [st EXCEPT !.stack = Pop(@),
                           !.trace = Append(@, Ev("throw", fr.id, fr.err.error, st.ctx)),
                           !.ctl = CtlThrow(fr.err.error)]
           [] o.op = "set" ->
                \* the write is done and the function goes on with what follows it
                LET c == [st.ctx EXCEPT !.event = [hasAction |-> TRUE,
                                                   action |-> o.message]]
                IN [st EXCEPT !.stack = SetTop(@, [fr EXCEPT !.pc = @ + 1]),
                              !.ctx = c,
                              !.trace = Append(@, Ev("set", fr.id, NoVal, c)),
                              !.ctl = CtlRet]

\* fn(ctx, k) is called
CallFn(heap, st, fn, k) ==
    CASE fn.t = "fn" ->
           RunBody([st EXCEPT
                      !.stack = Append(@, UserFrame("unit", fn.id, fn.body, k, NoVal)),
                      !.trace = Append(@, Ev("start", fn.id, NoVal, st.ctx))])
      [] fn.t = "pass" ->
           [st EXCEPT !.trace = Append(@, Ev("pass", Builtin, NoVal, st.ctx)),
                      !.ctl = CtlInvoke(k)]
      [] fn.t = "concat" ->
           \* let nextCalled = false; await first(ctx, async () => {...})
           [st EXCEPT !.flags = Append(@, FALSE),
                      !.ctl = CtlCall(fn.first,
                                      ConcatNext(Len(st.flags) + 1, fn.andThen, k))]
      [] fn.t = "flat" -> [st EXCEPT !.ctl = CtlCall(heap[fn.c], k)]
      [] fn.t = "flatv" -> [st EXCEPT !.ctl = CtlCall(fn.handler, k)]
      [] fn.t = "lazy" ->
           \* await flatten(new Composer(...arr))(ctx, next)
           [st EXCEPT !.trace = Append(@, Ev("factory", fn.id, NoVal, st.ctx)),
                      !.ctl = CtlCall(FlattenNew(ToArray(MiddlewareFactory(fn.factory,
                                                                           st.ctx))), k)]
      [] fn.t = "boundary" ->
           \* let nextCalled = false; try { await bound(ctx, cont) }
           [st EXCEPT !.flags = Append(@, FALSE),
                      !.stack = Append(@, BoundaryFrame(fn.id, Len(st.flags) + 1,
                                                        fn.errorHandler, k)),
                      !.trace = Append(@, Ev("boundary", fn.id, NoVal, st.ctx)),
                      !.ctl = CtlCall(fn.bound, Cont(Len(st.flags) + 1, fn.id))]

\* the function that is running when a continuation is invoked
Caller(st) == IF st.stack = <<>> THEN Builtin ELSE Top(st.stack).id

\* a concat whose continuation hands andThen the context as it was when the
\* dispatch began
InvokeStaleContext(st, k) ==
    CASE k.t = "leaf" -> [st EXCEPT !.ctl = CtlRet]
      [] k.t = "cnext" ->
           IF st.flags[k.flag]
           THEN LET v == DoubleNextError(Caller(st)) IN
                [st EXCEPT !.trace = Append(@, Ev("throw", Caller(st), v, st.ctx)),
                           !.ctl = CtlThrow(v)]
           ELSE [st EXCEPT !.flags[k.flag] = TRUE,
                           !.ctx = st.given,
                           !.ctl = CtlCall(k.andThen, k.next)]
      [] k.t = "cont" ->
           [st EXCEPT !.flags[k.flag] = TRUE,
                      !.trace = Append(@, Ev("cont", k.id, NoVal, st.ctx)),
                      !.ctl = CtlRet]

\* k() is called
Invoke(st, k) ==
    CASE k.t = "leaf" -> [st EXCEPT !.ctl = CtlRet]
      [] k.t = "cnext" ->
           IF st.flags[k.flag]
           THEN LET v == DoubleNextError(Caller(st)) IN
                [st EXCEPT !.trace = Append(@, Ev("throw", Caller(st), v, st.ctx)),
                           !.ctl = CtlThrow(v)]
           ELSE [st EXCEPT !.flags[k.flag] = TRUE,
                           !.ctl = CtlCall(k.andThen, k.next)]
      [] k.t = "cont" ->
           [st EXCEPT !.flags[k.flag] = TRUE,
                      !.trace = Append(@, Ev("cont", k.id, NoVal, st.ctx)),
                      !.ctl = CtlRet]

AfterTryAlways(st, fr) ==
    [st EXCEPT !.stack = Pop(@),
               !.trace = Append(@, Ev("outer", fr.id, NoVal, st.ctx)),
               !.ctl = CtlInvoke(fr.next)]

\* a boundary that invokes the outer continuation inside its try statement
AfterTryInsideTry(st, fr) ==
    IF st.flags[fr.flag]
    THEN [st EXCEPT !.flags[fr.flag] = FALSE,
                    !.trace = Append(@, Ev("outer", fr.id, NoVal, st.ctx)),
                    !.ctl = CtlInvoke(fr.next)]
    ELSE [st EXCEPT !.stack = Pop(@),
                    !.trace = Append(@, Ev("absorb", fr.id, NoVal, st.ctx)),
                    !.ctl = CtlRet]

\* errorBoundary, after the try statement: if (nextCalled) await next();
AfterTry(st, fr) ==
    IF st.flags[fr.flag]
    THEN [st EXCEPT !.stack = Pop(@),
                    !.trace = Append(@, Ev("outer", fr.id, NoVal, st.ctx)),
                    !.ctl = CtlInvoke(fr.next)]
    ELSE [st EXCEPT !.stack = Pop(@),
                    !.trace = Append(@, Ev("absorb", fr.id, NoVal, st.ctx)),
                    !.ctl = CtlRet]

\* the promise awaited by the top of the stack resolved
Resolve(st) ==
    IF st.stack = <<>>
    THEN [st EXCEPT !.status = "done", !.ctl = CtlNone]
    ELSE LET fr == Top(st.stack) IN
         IF fr.f = "boundary" THEN AfterTry(st, fr) ELSE RunBody(st)

\* errorBoundary, in the catch block: new BotError(err, ctx) threw, so the
\* closure ends with that failure and errorHandler is not called
CatchThrew(st, fr, made) ==
    LET v == [made.error EXCEPT !.by = fr.id] IN
    [st EXCEPT !.stack = Pop(@),
               !.trace = Append(@, Ev("throw", fr.id, v, st.ctx)),
               !.ctl = CtlThrow(v)]

\* errorBoundary, in the catch block: errorHandler is called with the BotError
\* and cont; the trace holds the call and the BotError the handler received
CallHandler(st, fr, err) ==
    LET h == fr.errorHandler
        e == BotError(err, st.ctx)
        st1 == [st EXCEPT
                  !.stack = Append(SetTop(@, [fr EXCEPT !.phase = "handler"]),
                                   UserFrame("handler", h.id, h.body, Cont(fr.flag, fr.id),
                                             e)),
                  !.trace = @ \o <<Ev("handler", h.id, err, st.ctx),
                                   Ev("received", h.id, e, st.ctx)>>]
    IN RunBody(st1)

CatchNoReset(st, fr, err) ==
    LET made == generateBotErrorMessage(err) IN
    IF made.throws THEN CatchThrew(st, fr, made) ELSE CallHandler(st, fr, err)

\* errorBoundary: catch (err) { nextCalled = false;
\*                              await errorHandler(new BotError(err, ctx), cont); }
Catch(st, fr, err) ==
    LET made == generateBotErrorMessage(err)
        st1 == [st EXCEPT !.flags[fr.flag] = FALSE]
    IN IF made.throws THEN CatchThrew(st1, fr, made) ELSE CallHandler(st1, fr, err)

\* variants of Reject: a boundary that catches Error objects only; one that
\* lets the double-continuation error through; one that hands the failure to
\* the outermost boundary on the stack
RejectErrorsOnly(st, err) ==
    IF st.stack = <<>>
    THEN [st EXCEPT !.status = "failed", !.error = err, !.ctl = CtlNone]
    ELSE LET fr == Top(st.stack) IN
         IF fr.f = "boundary" /\ fr.phase = "try" /\ err.type = "Error"
         THEN Catch(st, fr, err)
         ELSE [st EXCEPT !.stack = Pop(@)]

RejectFailFast(st, err) ==
    IF st.stack = <<>>
    THEN [st EXCEPT !.status = "failed", !.error = err, !.ctl = CtlNone]
    ELSE LET fr == Top(st.stack) IN
         IF fr.f = "boundary" /\ fr.phase = "try" /\ ~IsDoubleNext(err)
         THEN Catch(st, fr, err)
         ELSE [st EXCEPT !.stack = Pop(@)]

RejectOutermost(st, err) ==
    IF st.stack = <<>>
    THEN [st EXCEPT !.status = "failed", !.error = err, !.ctl = CtlNone]
    ELSE LET fr == Top(st.stack) IN
         IF /\ fr.f = "boundary" /\ fr.phase = "try"
            /\ \A i \in 1..(Len(st.stack) - 1) :
                  ~(st.stack[i].f = "boundary" /\ st.stack[i].phase = "try")
         THEN Catch(st, fr, err)
         ELSE [st EXCEPT !.stack = Pop(@)]

\* a rejection that passes through every user function, whether or not it
\* awaits inside a try statement
RejectThroughTry(st, err) ==
    IF st.stack = <<>>
    THEN [st EXCEPT !.status = "failed", !.error = err, !.ctl = CtlNone]
    ELSE LET fr == Top(st.stack) IN
         IF fr.f = "boundary" /\ fr.phase = "try"
         THEN Catch(st, fr, err)
         ELSE [st EXCEPT !.stack = Pop(@)]

\* the user function of frame fr is suspended in an await inside a try statement
AwaitsInTry(fr) ==
    /\ fr.f # "boundary"
    /\ fr.pc > 1
    /\ fr.body[fr.pc - 1].op = "trynext"

\* the promise awaited by the top of the stack rejected with err: the catch
\* block of an errorBoundary or of a user function takes it, any other
\* function ends with it
Reject(st, err) ==
    IF st.stack = <<>>
    THEN [st EXCEPT !.status = "failed", !.error = err, !.ctl = CtlNone]
    ELSE LET fr == Top(st.stack) IN
         IF fr.f = "boundary" /\ fr.phase = "try"
         THEN Catch(st, fr, err)
         ELSE IF AwaitsInTry(fr)
         THEN RunBody([st EXCEPT !.trace = Append(@, Ev("caught", fr.id, err, st.ctx))])
         ELSE [st EXCEPT !.stack = Pop(@)]

\* one step of a dispatch
StepOf(heap, st) ==
    CASE st.ctl.op = "call" -> CallFn(heap, st, st.ctl.fn, st.ctl.k)
      [] st.ctl.op = "invoke" -> Invoke(st, st.ctl.k)
      [] st.ctl.op = "ret" -> Resolve(st)
      [] st.ctl.op = "throw" -> Reject(st, st.ctl.err)

\* run: await middleware(ctx, leaf)
runStart(middleware, ctx) ==
    [Idle EXCEPT !.status = "running", !.ctx = ctx, !.given = ctx,
                 !.ctl = CtlCall(middleware, leaf)]

RECURSIVE RunToEnd(_, _)
RunToEnd(heap, st) ==
    IF st.status # "running" THEN st ELSE RunToEnd(heap, StepOf(heap, st))

\* handle: return run(this.middleware(), ctx), as one whole dispatch
handle(heap, this, ctx) == RunToEnd(heap, runStart(heap[this], ctx))

(***************************************************************************)
(* The program: a root composer, combinator calls on it and on the         *)
(* composers they return, and dispatches.                                  *)
(***************************************************************************)

Root == 1

\* new Composer(): nothing registered, no dispatch
Init ==
    /\ handler = <<Composer(<<>>)>>
    /\ regs = <<>>
    /\ nfn = 0
    /\ run = [d \in DispatchIds |-> Idle]

NoneRunning == \A d \in DispatchIds : run[d].status # "running"

\* A finished dispatch leaves nothing behind in the program: its record is
\* dropped when the tree is changed.
Forgotten == [d \in DispatchIds |-> Idle]

CanRegister(max) == Len(regs) < max /\ NoneRunning

\* the composers the program holds: the root and those the combinators returned
Held == {Root} \cup {regs[r].ret : r \in DOMAIN regs}

\* fresh user middleware functions with the given bodies
NewFns(from, bodies) == [i \in 1..Len(bodies) |-> Fn(from + i, bodies[i])]

\* composer.use(...middleware)
Use(this, bodies) ==
    /\ LET mws == NewFns(nfn, bodies)
           r == use(handler, this, mws)
       IN /\ handler' = r.heap
          /\ regs' = Append(regs, [op |-> "use", this |-> this, ret |-> r.ret,
                                   node |-> 0, fns |-> mws])
          /\ nfn' = nfn + Len(bodies)
    /\ run' = Forgotten

\* root.handle(ctx): one whole dispatch, run while no other is in progress
Handle(d, ctx) ==
    /\ NoneRunning
    /\ run' = [run EXCEPT ![d] = handle(handler, Root, ctx)]
    /\ UNCHANGED <<handler, regs, nfn>>

\* root.handle(ctx) is called: the dispatch begins, and goes on step by step
\* between the steps of another one
Start(d, ctx) ==
    /\ run[d].status = "idle"
    /\ run' = [run EXCEPT ![d] = runStart(handler[Root], ctx)]
    /\ UNCHANGED <<handler, regs, nfn>>

\* a step in which the nextCalled variables are shared between the dispatches
StepSharedFlags(d) ==
    /\ run[d].status = "running"
    /\ LET new == StepOf(handler, run[d])
           shared(e) == [i \in DOMAIN run[e].flags |->
                           IF i \in DOMAIN new.flags THEN new.flags[i]
                           ELSE run[e].flags[i]]
       IN run' = [e \in DispatchIds |->
                    IF e = d THEN new ELSE [run[e] EXCEPT !.flags = shared(e)]]
    /\ UNCHANGED <<handler, regs, nfn>>

\* dispatch d takes its next step; the nextCalled variables it reads and
\* writes are those of its own activations of concat and errorBoundary
Step(d) ==
    /\ run[d].status = "running"
    /\ run' = [run EXCEPT ![d] = StepOf(handler, run[d])]
    /\ UNCHANGED <<handler, regs, nfn>>

\* composer.errorBoundary(errorHandler, ...middleware)
ErrorBoundary(this, hbody, bodies) ==
    /\ LET errorHandler == [id |-> nfn + 1, body |-> hbody]
           mws == NewFns(nfn + 2, bodies)
           r == errorBoundary(handler, this, nfn + 2, errorHandler, mws)
       IN /\ handler' = r.heap
          /\ regs' = Append(regs, [op |-> "errorBoundary", this |-> this, ret |-> r.ret,
                                   node |-> nfn + 2, fns |-> mws,
                                   errorHandler |-> errorHandler])
          /\ nfn' = nfn + 2 + Len(bodies)
    /\ run' = Forgotten

\* composer.branch(predicate, trueMiddleware, falseMiddleware); each set is one
\* middleware (single) or an array of them
MaybeArrayOf(fns, single) == IF single THEN fns[1] ELSE Array(fns)

Branch(this, predicate, tset, fset) ==
    /\ LET tfns == NewFns(nfn + 1, tset.bodies)
           ffns == NewFns(nfn + 1 + Len(tfns), fset.bodies)
           r == branch(handler, this, nfn + 1, predicate,
                       MaybeArrayOf(tfns, tset.single), MaybeArrayOf(ffns, fset.single))
       IN /\ handler' = r.heap
          /\ regs' = Append(regs, [op |-> "branch", this |-> this, ret |-> r.ret,
                                   node |-> nfn + 1, fns |-> tfns \o ffns,
                                   predicate |-> predicate,
                                   trueFns |-> tfns, falseFns |-> ffns])
          /\ nfn' = nfn + 1 + Len(tfns) + Len(ffns)
    /\ run' = Forgotten

\* composer.filter(predicate, ...middleware)
Filter(this, predicate, bodies) ==
    /\ LET mws == NewFns(nfn + 1, bodies)
           r == filter(handler, this, nfn + 1, predicate, mws)
       IN /\ handler' = r.heap
          /\ regs' = Append(regs, [op |-> "filter", this |-> this, ret |-> r.ret,
                                   node |-> nfn + 1, fns |-> mws,
                                   predicate |-> predicate])
          /\ nfn' = nfn + 1 + Len(mws)
    /\ run' = Forgotten

\* composer.drop(predicate, ...middleware)
Drop(this, predicate, bodies) ==
    /\ LET mws == NewFns(nfn + 1, bodies)
           r == drop(handler, this, nfn + 1, predicate, mws)
       IN /\ handler' = r.heap
          /\ regs' = Append(regs, [op |-> "drop", this |-> this, ret |-> r.ret,
                                   node |-> nfn + 1, fns |-> mws,
                                   predicate |-> predicate])
          /\ nfn' = nfn + 1 + Len(mws)
    /\ run' = Forgotten

\* composer.lazy(middlewareFactory), for a factory that returns pushSet for a
\* push event and otherSet for any other event
Lazy(this, pushSet, otherSet) ==
    /\ LET pfns == NewFns(nfn + 1, pushSet.bodies)
           ofns == NewFns(nfn + 1 + Len(pfns), otherSet.bodies)
           table == [c \in Contexts |->
                       IF c = CtxPush THEN MaybeArrayOf(pfns, pushSet.single)
                       ELSE MaybeArrayOf(ofns, otherSet.single)]
           r == lazy(handler, this, nfn + 1, [kind |-> "table", table |-> table])
       IN /\ handler' = r.heap
          /\ regs' = Append(regs, [op |-> "lazy", this |-> this, ret |-> r.ret,
                                   node |-> nfn + 1, fns |-> pfns \o ofns,
                                   made |-> [c \in Contexts |->
                                               IF c = CtxPush THEN pfns ELSE ofns]])
          /\ nfn' = nfn + 1 + Len(pfns) + Len(ofns)
    /\ run' = Forgotten

\* composer.on(filter, ...middleware)
On(this, queries, bodies) ==
    /\ LET mws == NewFns(nfn + 1, bodies)
           r == on(handler, this, nfn + 1, queries, mws)
       IN /\ handler' = r.heap
          /\ regs' = Append(regs, [op |-> "on", this |-> this, ret |-> r.ret,
                                   node |-> nfn + 1, fns |-> mws,
                                   queries |-> queries])
          /\ nfn' = nfn + 1 + Len(mws)
    /\ run' = Forgotten

\* composer.route(router, {a: Ma, b: Mb}, fallback), or without the fallback
\* argument (fallback: Middleware<C> = pass)
Route(this, router, abodies, bbodies, fbodies) ==
    /\ LET ma == Fn(nfn + 2, abodies)
           mb == Fn(nfn + 3, bbodies)
           ffns == NewFns(nfn + 3, fbodies)
           fallback == IF ffns = <<>> THEN pass ELSE ffns[1]
           routeHandlers == [k \in {"a", "b"} |-> IF k = "a" THEN ma ELSE mb]
           r == route(handler, this, nfn + 1, router, routeHandlers, fallback)
       IN /\ handler' = r.heap
          /\ regs' = Append(regs, [op |-> "route", this |-> this, ret |-> r.ret,
                                   node |-> nfn + 1, fns |-> <<ma, mb>> \o ffns,
                                   router |-> router, fallbackFns |-> ffns])
          /\ nfn' = nfn + 3 + Len(ffns)
    /\ run' = Forgotten

\* ---- composers built with use alone
UseBodies ==
    {<<b>> : b \in {BodyStop, BodyNext, BodyNextNext, BodyThrow}}
    \cup {<<BodyNext, BodyStop>>, <<BodyNext, BodyNext>>}

NextUse ==
    \/ \E this \in Held, bodies \in UseBodies :
          CanRegister(MaxRegs) /\ Use(this, bodies)
    \/ Handle("d1", CtxPush)

SpecUse == Init /\ [][NextUse]_vars

\* ---- composers built with use and errorBoundary
MaxBoundaryRegs == 2

HandlerBodies == {BodyStop, BodyNext, BodyRethrow, BodyNextThrow}
GuardedBodies ==
    {<<>>, <<BodyNext>>, <<BodyThrow>>, <<BodyNextThrow>>, <<BodyNextNext>>}
AroundBodies == {<<BodyNext>>, <<BodyStop>>, <<BodyThrowError>>}

NextBoundary ==
    \/ \E this \in Held, bodies \in AroundBodies :
          CanRegister(MaxBoundaryRegs) /\ Use(this, bodies)
    \/ \E this \in Held, hbody \in HandlerBodies, bodies \in GuardedBodies :
          CanRegister(MaxBoundaryRegs) /\ ErrorBoundary(this, hbody, bodies)
    \/ Handle("d1", CtxPush)

SpecBoundary == Init /\ [][NextBoundary]_vars

\* ---- composers built with branch, filter, drop, route and use
MaxBranchRegs == 2

IsPush == Pred({CtxPush})
IsOpened == Pred({CtxOpened})
Preds == {IsPush, IsOpened}

\* a set of middleware handed to branch: one middleware, or an array
Single(body) == [single |-> TRUE, bodies |-> <<body>>]
Many(bodies) == [single |-> FALSE, bodies |-> bodies]
TrueSets == {Single(BodyNext), Many(<<BodyNext, BodyStop>>)}
FalseSets == {Single(BodyNext), Many(<<>>)}

\* routers: functions of the context
RouterAB ==
    [c \in Contexts |->
        IF c = CtxPush THEN Key("a") ELSE IF c = CtxOpened THEN Key("b") ELSE Undefined]
RouterOther ==
    [c \in Contexts |->
        IF c = CtxPush THEN Key("c") ELSE IF c = CtxOpened THEN Key("toString") ELSE Key("a")]
Routers == {RouterAB, RouterOther}

NextBranch ==
    \/ \E this \in Held :
          CanRegister(MaxBranchRegs) /\ Use(this, <<BodyNext>>)
    \/ \E this \in Held, p \in Preds, tset \in TrueSets, fset \in FalseSets :
          CanRegister(MaxBranchRegs) /\ Branch(this, p, tset, fset)
    \/ \E this \in Held, p \in Preds :
          CanRegister(MaxBranchRegs) /\ Filter(this, p, <<BodyNext>>)
    \/ \E this \in Held, p \in Preds :
          CanRegister(MaxBranchRegs) /\ Drop(this, p, <<BodyNext>>)
    \/ \E this \in Held, router \in Routers, fbodies \in {<<>>, <<BodyNext>>} :
          CanRegister(MaxBranchRegs) /\ Route(this, router, BodyNext, BodyStop, fbodies)
    \/ \E ctx \in Contexts : Handle("d1", ctx)

SpecBranch == Init /\ [][NextBranch]_vars

\* ---- composers built with on and use
MaxOnRegs == 2

\* a payload of an issues event that came without an action field
CtxNoAction == Context("issues", FALSE, "")
OnContexts == Contexts \cup {CtxNoAction}

OnQueries ==
    {Query("push"), Query("issues"), Query("issues.opened"),
     Array(<<Query("push"), Query("issues.closed")>>), Array(<<>>)}

NextOn ==
    \/ \E this \in Held :
          CanRegister(MaxOnRegs) /\ Use(this, <<BodyNext>>)
    \/ \E this \in Held, queries \in OnQueries :
          CanRegister(MaxOnRegs) /\ On(this, queries, <<BodyNext>>)
    \/ \E ctx \in OnContexts : Handle("d1", ctx)

SpecOn == Init /\ [][NextOn]_vars

\* ---- composers built with lazy and use, and two dispatches one after the other
MaxLazyRegs == 2

PushSets == {Single(BodyNext), Many(<<BodyNext, BodyStop>>)}
OtherSets == {Single(BodyStop), Many(<<>>)}

NextLazy ==
    \/ \E this \in Held :
          CanRegister(MaxLazyRegs) /\ Use(this, <<BodyNext>>)
    \/ \E this \in Held, pushSet \in PushSets, otherSet \in OtherSets :
          CanRegister(MaxLazyRegs) /\ Lazy(this, pushSet, otherSet)
    \/ \E d \in DispatchIds, ctx \in Contexts : Handle(d, ctx)

SpecLazy == Init /\ [][NextLazy]_vars

\* ---- composers without middleware among composers with some
MaxPassRegs == 3

PassBodies == {<<>>, <<BodyNext>>, <<BodyStop>>}

NextPass ==
    \/ \E this \in Held, bodies \in PassBodies :
          CanRegister(MaxPassRegs) /\ Use(this, bodies)
    \/ \E this \in Held :
          CanRegister(MaxPassRegs) /\ ErrorBoundary(this, BodyStop, <<>>)
    \/ Handle("d1", CtxPush)

SpecPass == Init /\ [][NextPass]_vars

\* ---- error boundaries around middleware that throws a value of each kind
MaxMessageRegs == 2

ThrownKinds ==
    {ThrowTypeError, ThrowString, ThrowLongString, ThrowBoolean, ThrowNumber,
     ThrowBigInt, ThrowSymbol, ThrowUndefined, ThrowObject}

NextMessage ==
    \/ \E this \in Held :
          CanRegister(MaxMessageRegs) /\ Use(this, <<BodyNext>>)
    \/ \E this \in Held, hbody \in {BodyStop, BodyNext}, o \in ThrownKinds :
          CanRegister(MaxMessageRegs) /\ ErrorBoundary(this, hbody, <<(<<o>>)>>)
    \/ Handle("d1", CtxPush)

SpecMessage == Init /\ [][NextMessage]_vars

\* ---- middleware that writes the payload, before predicates, routers and
\* error boundaries
MaxContextRegs == 2

IsClosed == Pred({CtxClosed})

NextContext ==
    \/ \E this \in Held, bodies \in {<<BodyNext>>, <<BodySetNext>>} :
          CanRegister(MaxContextRegs) /\ Use(this, bodies)
    \/ \E this \in Held :
          CanRegister(MaxContextRegs) /\ Filter(this, IsClosed, <<BodyNext>>)
    \/ \E this \in Held :
          CanRegister(MaxContextRegs)
             /\ Route(this, RouterAB, BodySetNext, BodyNext, <<BodyNext>>)
    \/ \E this \in Held, hbody \in {BodyStop, BodyNext} :
          CanRegister(MaxContextRegs) /\ ErrorBoundary(this, hbody, <<BodySetThrow>>)
    \/ \E ctx \in {CtxOpened, CtxClosed} : Handle("d1", ctx)

SpecContext == Init /\ [][NextContext]_vars

\* ---- registering on the composers use, filter, on and errorBoundary return
MaxChildRegs == 3

ChildBodies == {<<>>, <<BodyNext>>, <<BodyStop>>}

NextChild ==
    \/ \E this \in Held, bodies \in ChildBodies :
          CanRegister(MaxChildRegs) /\ Use(this, bodies)
    \/ \E this \in Held :
          CanRegister(MaxChildRegs) /\ Filter(this, IsPush, <<BodyNext>>)
    \/ \E this \in Held :
          CanRegister(MaxChildRegs) /\ On(this, Query("push"), <<>>)
    \/ \E this \in Held :
          CanRegister(MaxChildRegs) /\ ErrorBoundary(this, BodyStop, <<BodyNext>>)
    \/ \E ctx \in {CtxPush, CtxOpened} : Handle("d1", ctx)

SpecChild == Init /\ [][NextChild]_vars

\* ---- middleware with code after its awaited continuation
MaxAwaitRegs == 3

AwaitBodies ==
    {<<BodyNext>>, <<BodyNextSet>>, <<BodyTryNext>>, <<BodyStop>>, <<BodyThrow>>,
     <<BodyNextNext>>}

NextAwait ==
    \/ \E this \in Held, bodies \in AwaitBodies :
          CanRegister(MaxAwaitRegs) /\ Use(this, bodies)
    \/ Handle("d1", CtxOpened)

SpecAwait == Init /\ [][NextAwait]_vars

\* ---- two dispatches through one tree, their steps interleaved
MaxConcurrentRegs == 2

NextConcurrent ==
    \/ CanRegister(MaxConcurrentRegs) /\ Use(Root, <<BodyNext>>)
    \/ CanRegister(MaxConcurrentRegs) /\ Filter(Root, IsPush, <<BodyNext>>)
    \/ \E hbody \in {BodyStop, BodyNext}, bodies \in {<<BodyNext>>, <<BodyThrow>>} :
          CanRegister(MaxConcurrentRegs) /\ ErrorBoundary(Root, hbody, bodies)
    \/ Start("d1", CtxPush)
    \/ Start("d2", CtxOpened)
    \/ \E d \in DispatchIds : Step(d)

SpecConcurrent == Init /\ [][NextConcurrent]_vars

(***************************************************************************)
(* The whole program: every combinator, each within its own bound          *)
(***************************************************************************)
Next ==
    NextUse \/ NextBoundary \/ NextBranch \/ NextOn \/ NextLazy \/ NextPass
      \/ NextMessage \/ NextContext \/ NextChild \/ NextConcurrent \/ NextAwait

Spec == Init /\ [][Next]_vars

(***************************************************************************)
(* Reading a dispatch's trace                                              *)
(***************************************************************************)

Finished(d) == run[d].status \in {"done", "failed"}

\* where in dispatch d's trace function `who` did e
Pos(d, e, who) ==
    {i \in DOMAIN run[d].trace : run[d].trace[i].e = e /\ run[d].trace[i].who = who}

Throws(d) == {i \in DOMAIN run[d].trace : run[d].trace[i].e = "throw"}

\* fns[i] of call r1 was placed before fns[j] of call r2 on the same composer, by use
UsedBefore(r1, i, r2, j) ==
    /\ regs[r1].op = "use" /\ regs[r2].op = "use"
    /\ regs[r1].this = regs[r2].this
    /\ (r1 < r2 \/ (r1 = r2 /\ i < j))

(***************************************************************************)
(* C1.  In every dispatch, a middleware unit that invokes its continuation *)
(* a second time gets the double-continuation error from that second       *)
(* invocation, whatever the unit's position in the tree, and no unit is    *)
(* started twice.                                                          *)
(***************************************************************************)
C1_SecondNextRaises ==
    \A d \in DispatchIds :
        /\ \A i, j \in DOMAIN run[d].trace :
              ( /\ i < j
                /\ run[d].trace[i].e = "next" /\ run[d].trace[j].e = "next"
                /\ run[d].trace[i].who = run[d].trace[j].who )
              => /\ j < Len(run[d].trace)
                 /\ run[d].trace[j + 1].e = "throw"
                 /\ run[d].trace[j + 1].who = run[d].trace[j].who
                 /\ IsDoubleNext(run[d].trace[j + 1].val)
        /\ \A i, j \in DOMAIN run[d].trace :
              ( /\ run[d].trace[i].e = "start" /\ run[d].trace[j].e = "start"
                /\ run[d].trace[i].who = run[d].trace[j].who )
              => i = j

(***************************************************************************)
(* C2.  For units placed in sequence on one composer by use, in every      *)
(* dispatch the later unit starts only after the earlier one started and   *)
(* invoked its continuation; and a dispatch in which nothing throws (so    *)
(* also the one where A continues and B does not) completes without error. *)
(***************************************************************************)
C2_UseOrder ==
    \A d \in DispatchIds :
        /\ \A r1, r2 \in DOMAIN regs :
             \A i \in DOMAIN regs[r1].fns, j \in DOMAIN regs[r2].fns :
                UsedBefore(r1, i, r2, j) =>
                   \A y \in Pos(d, "start", regs[r2].fns[j].id) :
                      \E x \in Pos(d, "start", regs[r1].fns[i].id),
                         n \in Pos(d, "next", regs[r1].fns[i].id) : x < n /\ n < y
        /\ (Finished(d) /\ Throws(d) = {}) => run[d].status = "done"

\* A, B, C registered by three calls of use on the root; A continued, B did
\* not, C never ran and the dispatch is done
C2_Witness ==
    /\ Len(regs) = 3
    /\ \A r \in 1..3 : regs[r].op = "use" /\ regs[r].this = Root /\ Len(regs[r].fns) = 1
    /\ run["d1"].status = "done"
    /\ Pos("d1", "next", regs[1].fns[1].id) # {}
    /\ Pos("d1", "start", regs[2].fns[1].id) # {}
    /\ Pos("d1", "next", regs[2].fns[1].id) = {}
    /\ Pos("d1", "start", regs[3].fns[1].id) = {}

(***************************************************************************)
(* Reading the tree: which error boundaries a registered function is in    *)
(***************************************************************************)

\* the combinator call that returned the composer call r was made on (0: the root)
ParentReg(r) ==
    IF regs[r].this = Root THEN 0
    ELSE CHOOSE q \in DOMAIN regs : regs[q].ret = regs[r].this

IsBoundary(r) == regs[r].op = "errorBoundary"

\* the errorBoundary calls whose guarded composer holds, at some depth, what call r added
RECURSIVE BoundariesAbove(_)
BoundariesAbove(r) ==
    LET q == ParentReg(r) IN
    IF q = 0 THEN {}
    ELSE (IF IsBoundary(q) THEN {q} ELSE {}) \cup BoundariesAbove(q)

FnIds(r) == {regs[r].fns[i].id : i \in DOMAIN regs[r].fns}
HandlerIds(r) == IF IsBoundary(r) THEN {regs[r].errorHandler.id} ELSE {}

Registered == UNION {FnIds(r) \cup HandlerIds(r) : r \in DOMAIN regs}

\* the call that registered function x
FnReg(x) == CHOOSE r \in DOMAIN regs : x \in FnIds(r) \cup HandlerIds(r)

\* the boundaries function x runs inside: a guarded middleware is inside its
\* own boundary, an error handler is not
Around(x) ==
    LET r == FnReg(x) IN
    (IF IsBoundary(r) /\ x \in FnIds(r) THEN {r} ELSE {}) \cup BoundariesAbove(r)

Max(S) == CHOOSE m \in S : \A n \in S : n <= m

\* the nearest boundary around x (0: none): boundaries are nested in the
\* order they were registered
Nearest(x) == IF Around(x) = {} THEN 0 ELSE Max(Around(x))

ThrowingOps == {"throw", "rethrow"}
NeverThrows(body) == \A i \in DOMAIN body : body[i].op \notin ThrowingOps

(***************************************************************************)
(* C3.  For an errorBoundary whose handler does not throw: a value thrown  *)
(* by any function inside the guarded subtree (whatever its kind and       *)
(* depth, error handlers of nested boundaries included) is handed, wrapped *)
(* with the context, to the handler of a boundary of that subtree, and the *)
(* dispatch never fails with a value raised inside the subtree.            *)
(***************************************************************************)
C3_BoundaryContains ==
    \A d \in DispatchIds : \A b \in DOMAIN regs :
        (Finished(d) /\ IsBoundary(b) /\ NeverThrows(regs[b].errorHandler.body)) =>
           /\ \A i \in Throws(d) :
                 LET x == run[d].trace[i].who IN
                 (x \in Registered /\ b \in Around(x)) =>
                    \E j \in DOMAIN run[d].trace :
                       /\ j > i
                       /\ run[d].trace[j].e = "handler"
                       /\ run[d].trace[j].val = run[d].trace[i].val
                       /\ run[d].trace[j].ctx = run[d].ctx
                       /\ \E b2 \in Around(x) :
                             b2 >= b /\ run[d].trace[j].who = regs[b2].errorHandler.id
           /\ run[d].status = "failed" =>
                 ~(run[d].error.by \in Registered /\ b \in Around(run[d].error.by))

\* a string thrown two boundaries deep: the inner handler threw it again and
\* the outer handler, which does not throw, received it; the dispatch is done
C3_Witness ==
    \E b, b2 \in DOMAIN regs : \E i \in Throws("d1") :
        /\ IsBoundary(b) /\ IsBoundary(b2) /\ b < b2
        /\ NeverThrows(regs[b].errorHandler.body)
        /\ run["d1"].status = "done"
        /\ run["d1"].trace[i].who \in FnIds(b2)
        /\ run["d1"].trace[i].val.type = "string"
        /\ Around(run["d1"].trace[i].who) = {b, b2}
        /\ \E j \in Pos("d1", "handler", regs[b].errorHandler.id) :
              run["d1"].trace[j].val = run["d1"].trace[i].val

\* the first middleware of the next use call on the composer call r was made on
After(r) ==
    {regs[q].fns[1].id : q \in {q \in DOMAIN regs :
        /\ q > r /\ regs[q].this = regs[r].this
        /\ regs[q].op = "use" /\ regs[q].fns # <<>>
        /\ \A m \in (r + 1)..(q - 1) : regs[m].this # regs[r].this}}

\* the guarded subtree of boundary b let a failure out in dispatch d
GuardThrew(d, b) ==
    \E i \in Throws(d) :
        run[d].trace[i].who \in Registered /\ Nearest(run[d].trace[i].who) = b

C5_NormalCompletion ==
    \A d \in DispatchIds : \A b \in DOMAIN regs :
        (Finished(d) /\ IsBoundary(b)) =>
            /\ Cardinality(Pos(d, "outer", regs[b].node)) <= 1
            /\ (Pos(d, "boundary", regs[b].node) # {} /\ ~GuardThrew(d, b)) =>
                  /\ Pos(d, "handler", regs[b].errorHandler.id) = {}
                  /\ (Pos(d, "outer", regs[b].node) # {})
                        <=> (Pos(d, "cont", regs[b].node) # {})
                  /\ \A u \in After(b) :
                        (Pos(d, "start", u) # {}) <=> (Pos(d, "cont", regs[b].node) # {})

\* a guarded middleware continued and returned, and the middleware after the
\* boundary ran and threw: the handler was not invoked
C5_Witness ==
    \E b \in DOMAIN regs : \E g \in FnIds(b) : \E u \in After(b) :
        /\ IsBoundary(b)
        /\ run["d1"].status = "failed"
        /\ Pos("d1", "end", g) # {}
        /\ Pos("d1", "cont", regs[b].node) # {}
        /\ Pos("d1", "throw", u) # {}
        /\ Pos("d1", "handler", regs[b].errorHandler.id) = {}

(***************************************************************************)
(* C6, as stated.  A double-continuation error raised inside a guarded     *)
(* subtree is not handed to a handler and fails the dispatch.              *)
(***************************************************************************)
C6_AsStated ==
    \A d \in DispatchIds : \A i \in Throws(d) :
        ( /\ Finished(d)
          /\ IsDoubleNext(run[d].trace[i].val)
          /\ run[d].trace[i].who \in Registered
          /\ Around(run[d].trace[i].who) # {} ) =>
            /\ \A j \in DOMAIN run[d].trace :
                  ~(run[d].trace[j].e = "handler"
                    /\ run[d].trace[j].val = run[d].trace[i].val)
            /\ run[d].status = "failed"
            /\ run[d].error = run[d].trace[i].val

(***************************************************************************)
(* C6, amended.  A double-continuation error raised inside a guarded       *)
(* subtree is caught like any other thrown value: the handler of the       *)
(* nearest enclosing boundary is invoked with it, and the dispatch fails   *)
(* with it only if the handler of every enclosing boundary threw it again. *)
(***************************************************************************)
C6_DoubleNextCaught ==
    \A d \in DispatchIds : \A i \in Throws(d) :
        LET x == run[d].trace[i].who
            v == run[d].trace[i].val
        IN
        (Finished(d) /\ IsDoubleNext(v) /\ x \in Registered /\ Around(x) # {}
           /\ x = v.by) =>
            /\ i < Len(run[d].trace)
            /\ run[d].trace[i + 1].e = "handler"
            /\ run[d].trace[i + 1].who = regs[Nearest(x)].errorHandler.id
            /\ run[d].trace[i + 1].val = v
            /\ (run[d].status = "failed" /\ run[d].error = v) =>
                  \A b \in Around(x) :
                     \E j \in Pos(d, "throw", regs[b].errorHandler.id) :
                        run[d].trace[j].val = v

\* a guarded middleware invoked a concat continuation twice; the boundary's
\* handler received the error and the dispatch is done
C6_Witness ==
    \E b \in DOMAIN regs : \E g \in FnIds(b) : \E i \in Pos("d1", "throw", g) :
        /\ IsBoundary(b)
        /\ IsDoubleNext(run["d1"].trace[i].val)
        /\ run["d1"].trace[i + 1].e = "handler"
        /\ run["d1"].trace[i + 1].who = regs[b].errorHandler.id
        /\ run["d1"].status = "done"

NoDoubleNext(d) ==
    \A i \in Throws(d) : ~IsDoubleNext(run[d].trace[i].val)

(***************************************************************************)
(* C8.  branch(p, T, F): a dispatch that reaches the branch calls the      *)
(* factory (which evaluates p) exactly once and runs the selected set, T   *)
(* when p holds of the context and F otherwise, at once; no middleware of  *)
(* the other set is started, and with every middleware invoking its        *)
(* continuation at most once no continuation is refused.                   *)
(***************************************************************************)
C8_BranchSelectsOne ==
    \A d \in DispatchIds : \A r \in DOMAIN regs :
        (Finished(d) /\ regs[r].op = "branch") =>
            LET holds == EvalPred(regs[r].predicate, run[d].ctx)
                sel == IF holds THEN regs[r].trueFns ELSE regs[r].falseFns
                oth == IF holds THEN regs[r].falseFns ELSE regs[r].trueFns
                reached == Pos(d, "factory", regs[r].node)
            IN
            /\ Cardinality(reached) <= 1
            /\ \A i \in DOMAIN oth : Pos(d, "start", oth[i].id) = {}
            /\ \A f \in reached :
                  /\ f < Len(run[d].trace)
                  /\ IF sel = <<>>
                     THEN run[d].trace[f + 1].e = "pass"
                     ELSE /\ run[d].trace[f + 1].e = "start"
                          /\ run[d].trace[f + 1].who = sel[1].id
                          /\ Cardinality(Pos(d, "start", sel[1].id)) = 1
            /\ reached = {} => \A i \in DOMAIN sel : Pos(d, "start", sel[i].id) = {}
            /\ (\A u \in Registered : Cardinality(Pos(d, "next", u)) <= 1)
                  => NoDoubleNext(d)

\* a branch with two non-empty sets was reached with p true: T's first
\* middleware started, F's did not
C8_Witness ==
    \E r \in DOMAIN regs :
        /\ regs[r].op = "branch"
        /\ regs[r].trueFns # <<>> /\ regs[r].falseFns # <<>>
        /\ run["d1"].status = "done"
        /\ EvalPred(regs[r].predicate, run["d1"].ctx)
        /\ Pos("d1", "factory", regs[r].node) # {}
        /\ Pos("d1", "start", regs[r].trueFns[1].id) # {}
        /\ Pos("d1", "start", regs[r].falseFns[1].id) = {}

(***************************************************************************)
(* C9.  route(r, {a: Ma, b: Mb}, fallback): a dispatch that reaches the    *)
(* route runs Ma when r(ctx) is a, Mb when it is b, and the fallback for   *)
(* every other value of r(ctx), undefined or a key that is not registered; *)
(* without a fallback argument the route passes through.                   *)
(***************************************************************************)
C9_RouteSelects ==
    \A d \in DispatchIds : \A r \in DOMAIN regs :
        (Finished(d) /\ regs[r].op = "route") =>
            \A f \in Pos(d, "factory", regs[r].node) :
                LET key == regs[r].router[run[d].ctx]
                    chosen == IF key = Key("a") THEN "a"
                              ELSE IF key = Key("b") THEN "b" ELSE "fallback"
                    fb == regs[r].fallbackFns
                IN
                /\ (Pos(d, "start", regs[r].fns[1].id) # {}) <=> (chosen = "a")
                /\ (Pos(d, "start", regs[r].fns[2].id) # {}) <=> (chosen = "b")
                /\ IF fb # <<>>
                   THEN (Pos(d, "start", fb[1].id) # {}) <=> (chosen = "fallback")
                   ELSE (chosen = "fallback") =>
                           f < Len(run[d].trace) /\ run[d].trace[f + 1].e = "pass"

\* the same, for the values of r(ctx) that are not names of properties every
\* object inherits
C9_RouteSelectsOwnKeys ==
    \A d \in DispatchIds : \A r \in DOMAIN regs :
        (Finished(d) /\ regs[r].op = "route") =>
            \A f \in Pos(d, "factory", regs[r].node) :
                LET key == regs[r].router[run[d].ctx]
                    chosen == IF key = Key("a") THEN "a"
                              ELSE IF key = Key("b") THEN "b" ELSE "fallback"
                    fb == regs[r].fallbackFns
                IN
                (~key.defined \/ key.key \notin ObjectPrototypeKeys) =>
                    /\ (Pos(d, "start", regs[r].fns[1].id) # {}) <=> (chosen = "a")
                    /\ (Pos(d, "start", regs[r].fns[2].id) # {}) <=> (chosen = "b")
                    /\ IF fb # <<>>
                       THEN (Pos(d, "start", fb[1].id) # {}) <=> (chosen = "fallback")
                       ELSE (chosen = "fallback") =>
                               f < Len(run[d].trace) /\ run[d].trace[f + 1].e = "pass"

(***************************************************************************)
(* C10.  filter(p, M) runs M iff p holds of the context and drop(p, M')    *)
(* runs M' iff it does not, so for one p and one context never both; a     *)
(* node that is not triggered passes through: it calls pass, which invokes *)
(* the continuation once, so that the middleware after the node starts     *)
(* exactly once.                                                           *)
(***************************************************************************)
C10_FilterDrop ==
    \A d \in DispatchIds :
        Finished(d) =>
           /\ \A r \in DOMAIN regs :
                 regs[r].op \in {"filter", "drop"} =>
                    LET holds == EvalPred(regs[r].predicate, run[d].ctx)
                        want == IF regs[r].op = "filter" THEN holds ELSE ~holds
                        m == regs[r].fns[1].id
                        reached == Pos(d, "factory", regs[r].node)
                    IN
                    /\ Cardinality(reached) <= 1
                    /\ Pos(d, "start", m) # {} => (reached # {} /\ want)
                    /\ \A f \in reached :
                          /\ f < Len(run[d].trace)
                          /\ IF want
                             THEN /\ run[d].trace[f + 1].e = "start"
                                  /\ run[d].trace[f + 1].who = m
                             ELSE /\ run[d].trace[f + 1].e = "pass"
                                  /\ \A u \in After(r) :
                                        Cardinality(Pos(d, "start", u)) = 1
           /\ \A r1, r2 \in DOMAIN regs :
                 ( /\ regs[r1].op = "filter" /\ regs[r2].op = "drop"
                   /\ regs[r1].predicate = regs[r2].predicate ) =>
                      ~( /\ Pos(d, "start", regs[r1].fns[1].id) # {}
                         /\ Pos(d, "start", regs[r2].fns[1].id) # {} )

\* filter(p, M) and drop(p, M') on the root, both reached, p true: M ran, M'
\* did not and the drop node passed through
C10_Witness ==
    \E r1, r2 \in DOMAIN regs :
        /\ regs[r1].op = "filter" /\ regs[r2].op = "drop"
        /\ regs[r1].predicate = regs[r2].predicate
        /\ run["d1"].status = "done"
        /\ EvalPred(regs[r1].predicate, run["d1"].ctx)
        /\ Pos("d1", "start", regs[r1].fns[1].id) # {}
        /\ Pos("d1", "start", regs[r2].fns[1].id) = {}
        /\ \E f \in Pos("d1", "factory", regs[r2].node) :
              run["d1"].trace[f + 1].e = "pass"

(***************************************************************************)
(* Reading a query the way section 4.4 writes it: "<event>" or             *)
(* "<event>.<action>"                                                      *)
(***************************************************************************)
QueryParts(q) ==
    CASE q = "push" -> [event |-> "push", action |-> Undefined]
      [] q = "issues" -> [event |-> "issues", action |-> Undefined]
      [] q = "issues.opened" -> [event |-> "issues", action |-> Key("opened")]
      [] q = "issues.closed" -> [event |-> "issues", action |-> Key("closed")]

\* the context's event name equals the event part and, when there is an action
\* qualifier, the payload has an action field equal to it
Matches(q, c) ==
    LET parts == QueryParts(q) IN
    /\ c.eventName = parts.event
    /\ parts.action.defined => (c.event.hasAction /\ c.event.action = parts.action.key)

QuerySet(queries) == IF queries.t = "array" THEN queries.items ELSE <<queries>>

(***************************************************************************)
(* C11.  on(q, M) runs M iff the context's event name equals the event     *)
(* part of q and, when q carries an action qualifier, the payload has an   *)
(* action field equal to it; with a set of queries, iff at least one of    *)
(* them matches; when none matches the node passes through, so that the    *)
(* middleware after it starts exactly once.                                *)
(***************************************************************************)
C11_OnMatches ==
    \A d \in DispatchIds : \A r \in DOMAIN regs :
        (Finished(d) /\ regs[r].op = "on") =>
            LET qs == QuerySet(regs[r].queries)
                want == \E i \in DOMAIN qs : Matches(qs[i].value, run[d].ctx)
                m == regs[r].fns[1].id
                reached == Pos(d, "factory", regs[r].node)
            IN
            /\ Cardinality(reached) <= 1
            /\ Pos(d, "start", m) # {} => (reached # {} /\ want)
            /\ \A f \in reached :
                  /\ f < Len(run[d].trace)
                  /\ IF want
                     THEN /\ run[d].trace[f + 1].e = "start"
                          /\ run[d].trace[f + 1].who = m
                     ELSE /\ run[d].trace[f + 1].e = "pass"
                          /\ \A u \in After(r) :
                                Cardinality(Pos(d, "start", u)) = 1

\* on("issues.opened", M1) and on(["push", "issues.closed"], M2) on the root,
\* an issues event with action closed: M1 did not run, its node passed
\* through, and M2 ran
C11_Witness ==
    \E r1, r2 \in DOMAIN regs :
        /\ regs[r1].op = "on" /\ regs[r2].op = "on" /\ r1 < r2
        /\ regs[r1].this = Root /\ regs[r2].this = Root
        /\ regs[r1].queries = Query("issues.opened")
        /\ regs[r2].queries = Array(<<Query("push"), Query("issues.closed")>>)
        /\ run["d1"].status = "done"
        /\ run["d1"].ctx = CtxClosed
        /\ Pos("d1", "start", regs[r1].fns[1].id) = {}
        /\ \E f \in Pos("d1", "factory", regs[r1].node) :
              run["d1"].trace[f + 1].e = "pass"
        /\ Pos("d1", "start", regs[r2].fns[1].id) # {}

(***************************************************************************)
(* C12.  lazy(factory): a dispatch that reaches the lazy node calls the    *)
(* factory exactly once, with that dispatch's context, and what the        *)
(* factory made for that context runs at once in its place; nothing the    *)
(* factory makes for another context is started in that dispatch, whatever *)
(* an earlier dispatch was given.                                          *)
(***************************************************************************)
C12_LazyPerDispatch ==
    \A d \in DispatchIds : \A r \in DOMAIN regs :
        (Finished(d) /\ regs[r].op = "lazy") =>
            LET produced == regs[r].made[run[d].ctx]
                reached == Pos(d, "factory", regs[r].node)
            IN
            /\ Cardinality(reached) <= 1
            /\ \A x \in FnIds(r) :
                  Pos(d, "start", x) # {} =>
                     /\ reached # {}
                     /\ \E i \in DOMAIN produced : produced[i].id = x
            /\ \A f \in reached :
                  /\ run[d].trace[f].ctx = run[d].ctx
                  /\ f < Len(run[d].trace)
                  /\ IF produced = <<>>
                     THEN run[d].trace[f + 1].e = "pass"
                     ELSE /\ run[d].trace[f + 1].e = "start"
                          /\ run[d].trace[f + 1].who = produced[1].id
                          /\ Cardinality(Pos(d, "start", produced[1].id)) = 1

\* two dispatches, one after the other, through the same lazy node: a push
\* event ran what the factory made for it, and the issues event after it ran
\* what the factory made for that one
C12_Witness ==
    \E r \in DOMAIN regs :
        /\ regs[r].op = "lazy"
        /\ regs[r].made[CtxPush] # <<>> /\ regs[r].made[CtxOpened] # <<>>
        /\ run["d1"].status = "done" /\ run["d1"].ctx = CtxPush
        /\ run["d2"].status = "done" /\ run["d2"].ctx = CtxOpened
        /\ Pos("d1", "factory", regs[r].node) # {}
        /\ Pos("d2", "factory", regs[r].node) # {}
        /\ Pos("d1", "start", regs[r].made[CtxPush][1].id) # {}
        /\ Pos("d1", "start", regs[r].made[CtxOpened][1].id) = {}
        /\ Pos("d2", "start", regs[r].made[CtxOpened][1].id) # {}
        /\ Pos("d2", "start", regs[r].made[CtxPush][1].id) = {}

\* the composer call r returned was constructed with no middleware, and nothing
\* was registered on it later
Untouched(r) ==
    /\ regs[r].op \in {"use", "errorBoundary"}
    /\ regs[r].fns = <<>>
    /\ \A q \in DOMAIN regs : regs[q].this # regs[r].ret

(***************************************************************************)
(* C13.  A composer constructed with zero middleware, with none registered *)
(* later, has the handler pass and invokes the continuation it is run with *)
(* exactly once: as the guarded composer of an error boundary it invokes   *)
(* cont once and at once; in a chain of such composers on the root the     *)
(* middleware placed after them starts exactly once; and handle on a tree  *)
(* of such composers alone completes without error.                        *)
(***************************************************************************)
C13_EmptyPassesThrough ==
    /\ regs = <<>> => handler[Root] = pass
    /\ \A r \in DOMAIN regs : Untouched(r) => handler[regs[r].ret] = pass
    /\ \A d \in DispatchIds :
          Finished(d) =>
             /\ \A b \in DOMAIN regs :
                   (Untouched(b) /\ IsBoundary(b)) =>
                      /\ Pos(d, "handler", regs[b].errorHandler.id) = {}
                      /\ Cardinality(Pos(d, "cont", regs[b].node))
                            = Cardinality(Pos(d, "boundary", regs[b].node))
                      /\ \A i \in Pos(d, "boundary", regs[b].node) :
                            /\ i + 2 <= Len(run[d].trace)
                            /\ run[d].trace[i + 1].e = "pass"
                            /\ run[d].trace[i + 2].e = "cont"
                            /\ run[d].trace[i + 2].who = regs[b].node
             /\ \A q \in DOMAIN regs :
                   ( /\ regs[q].this = Root /\ regs[q].op = "use" /\ regs[q].fns # <<>>
                     /\ \A r \in 1..(q - 1) : regs[r].this = Root /\ Untouched(r) ) =>
                        Cardinality(Pos(d, "start", regs[q].fns[1].id)) = 1
             /\ (\A r \in DOMAIN regs : Untouched(r)) =>
                   run[d].status = "done" /\ Throws(d) = {}

\* root.use(), root.errorBoundary(h), root.use(B): the dispatch passed through
\* the two composers without middleware and B started
C13_Witness ==
    /\ Len(regs) = 3
    /\ regs[1].op = "use" /\ Untouched(1) /\ regs[1].this = Root
    /\ regs[2].op = "errorBoundary" /\ Untouched(2) /\ regs[2].this = Root
    /\ regs[3].op = "use" /\ regs[3].this = Root /\ regs[3].fns # <<>>
    /\ run["d1"].status = "done"
    /\ Pos("d1", "cont", regs[2].node) # {}
    /\ Pos("d1", "start", regs[3].fns[1].id) # {}

(***************************************************************************)
(* Reading the tree: the place of a registered function                    *)
(***************************************************************************)

\* the combinator calls from the root down to call r
RECURSIVE Path(_)
Path(r) ==
    IF ParentReg(r) = 0 THEN <<r>> ELSE Append(Path(ParentReg(r)), r)

\* p comes before q in the tree: p is a proper prefix of q, or p is smaller at
\* the first place where they differ
RECURSIVE PathBefore(_, _)
PathBefore(p, q) ==
    IF p = <<>> THEN q # <<>>
    ELSE IF q = <<>> THEN FALSE
    ELSE IF Head(p) # Head(q) THEN Head(p) < Head(q)
    ELSE PathBefore(Tail(p), Tail(q))

\* functions are numbered in the order they are created, so x < y says that x
\* was registered earlier in time than y (or earlier in the same call)
TreeBefore(x, y) ==
    IF FnReg(x) = FnReg(y) THEN x < y
    ELSE PathBefore(Path(FnReg(x)), Path(FnReg(y)))

StartsBefore(d, x, y) ==
    \A i \in Pos(d, "start", x), j \in Pos(d, "start", y) : i < j

(***************************************************************************)
(* C14, as stated.  Of two middleware units registered anywhere in the     *)
(* tree, the one registered earlier in time starts before the one          *)
(* registered later, in every dispatch in which both run.                  *)
(***************************************************************************)
C14_AsStated ==
    \A d \in DispatchIds : \A x, y \in Registered :
        (Finished(d) /\ x < y) => StartsBefore(d, x, y)

(***************************************************************************)
(* C14, amended.  The tree orders middleware by place, not by time: units  *)
(* registered on one composer start in the order they were registered on   *)
(* it, and the units registered on a child composer start in the child's   *)
(* place in its parent (after the child's own middleware, before whatever  *)
(* the parent registered after the child), whenever they were registered.  *)
(***************************************************************************)
C14_TreeOrder ==
    \A d \in DispatchIds : \A x, y \in Registered :
        (Finished(d) /\ TreeBefore(x, y)) => StartsBefore(d, x, y)

\* c = root.use(A); root.use(B); c.use(C): C, registered last, started after A
\* and before B
C14_Witness ==
    /\ Len(regs) = 3
    /\ regs[1].this = Root /\ regs[2].this = Root /\ regs[3].this = regs[1].ret
    /\ \A r \in 1..3 : Len(regs[r].fns) = 1
    /\ Finished("d1")
    /\ \E a \in Pos("d1", "start", regs[1].fns[1].id),
          b \in Pos("d1", "start", regs[2].fns[1].id),
          c \in Pos("d1", "start", regs[3].fns[1].id) : a < c /\ c < b

(***************************************************************************)
(* The message section 4.9 gives a thrown value                            *)
(***************************************************************************)
NonErrorPrefix(type) == "Non-error value of type " \o type \o " thrown in middleware"

FirstChars(text, n) == IF Len(text) <= n THEN text ELSE SubSeq(text, 1, n)

NormalizedMessage(v) ==
    CASE v.type = "Error" -> v.name \o " in middleware: " \o v.message
      [] v.type = "string" ->
           NonErrorPrefix("string") \o ": " \o FirstChars(v.message, SubstringEnd)
      [] v.type \in {"boolean", "number", "bigint", "symbol"} ->
           NonErrorPrefix(v.type) \o ": " \o v.message
      [] OTHER -> NonErrorPrefix(v.type) \o "!"

\* the guarded middleware of a boundary threw at place i of the trace, and the
\* boundary's handler received a dispatch error with the normalized message
HandlerGotMessage(d, i) ==
    LET v == run[d].trace[i].val IN
    /\ i + 2 <= Len(run[d].trace)
    /\ run[d].trace[i + 1].e = "handler"
    /\ run[d].trace[i + 2].e = "received"
    /\ run[d].trace[i + 2].val.error = v
    /\ run[d].trace[i + 2].val.message = NormalizedMessage(v)
    /\ (v.type = "Error" /\ v.name = "TypeError" /\ v.message = "bad") =>
          run[d].trace[i + 2].val.message = "TypeError in middleware: bad"
    /\ (v.type = "string" /\ v.message = "nonerror") =>
          run[d].trace[i + 2].val.message
             = "Non-error value of type string thrown in middleware: nonerror"
    /\ (v.type = "string" /\ v.message = LongString) =>
          Len(run[d].trace[i + 2].val.message)
             = Len(NonErrorPrefix("string") \o ": ") + SubstringEnd

(***************************************************************************)
(* C15.  Error normalization yields a message for every kind of thrown     *)
(* value: whenever guarded middleware throws, the handler receives a       *)
(* dispatch error whose message is "<name> in middleware: <message>" for   *)
(* an error object, the type-naming message followed by the first 50       *)
(* characters for a string, the type-naming message with the value inlined *)
(* for a boolean, number, bigint or symbol, and the type-naming message    *)
(* with the generic marker for every other value.                          *)
(***************************************************************************)
C15_MessageForEveryKind ==
    \A d \in DispatchIds : \A b \in DOMAIN regs :
        (Finished(d) /\ IsBoundary(b)) =>
            \A x \in FnIds(b) : \A i \in Pos(d, "throw", x) : HandlerGotMessage(d, i)

\* the same, for every thrown value but a symbol
C15_MessageUnlessSymbol ==
    \A d \in DispatchIds : \A b \in DOMAIN regs :
        (Finished(d) /\ IsBoundary(b)) =>
            \A x \in FnIds(b) : \A i \in Pos(d, "throw", x) :
                run[d].trace[i].val.type # "symbol" => HandlerGotMessage(d, i)

\* a thrown symbol: the handler of the boundary around it is never invoked,
\* and a TypeError raised by the boundary itself ends the dispatch
C15_SymbolEscapes ==
    \E b \in DOMAIN regs : \E x \in FnIds(b) : \E i \in Pos("d1", "throw", x) :
        /\ IsBoundary(b)
        /\ run["d1"].trace[i].val.type = "symbol"
        /\ Pos("d1", "handler", regs[b].errorHandler.id) = {}
        /\ run["d1"].status = "failed"
        /\ run["d1"].error.name = "TypeError"
        /\ run["d1"].error.by = regs[b].node

(***************************************************************************)
(* C16.  Within one dispatch the context every function is handed (each    *)
(* entry of the trace: middleware, factories of lazy, branch, filter and   *)
(* route with their predicate or router, error handlers and the dispatch   *)
(* error they receive) is the one passed to handle: its event name never   *)
(* changes and its payload changes only where a middleware writes it, so   *)
(* that everything that runs after a write is handed the written payload,  *)
(* and predicates and routers decide on it.                                *)
(***************************************************************************)
C16_SameContext ==
    \A d \in DispatchIds :
        Finished(d) =>
           LET tr == run[d].trace IN
           /\ tr # <<>> => tr[1].ctx = run[d].given
           /\ \A i \in DOMAIN tr :
                 /\ tr[i].ctx.eventName = run[d].given.eventName
                 /\ i > 1 =>
                       \/ tr[i].ctx = tr[i - 1].ctx
                       \/ tr[i].e = "set" /\ tr[i].who \in Registered
                 /\ tr[i].e = "set" =>
                       \A j \in DOMAIN tr :
                          (j > i /\ \A m \in (i + 1)..j : tr[m].e # "set") =>
                             tr[j].ctx = tr[i].ctx
                 /\ tr[i].e = "received" => tr[i].val.ctx = tr[i].ctx
           /\ \A r \in DOMAIN regs :
                 /\ regs[r].op = "filter" =>
                       \A f \in Pos(d, "factory", regs[r].node) :
                          (Pos(d, "start", regs[r].fns[1].id) # {})
                             <=> EvalPred(regs[r].predicate, tr[f].ctx)
                 /\ regs[r].op = "route" =>
                       \A f \in Pos(d, "factory", regs[r].node) :
                          /\ (Pos(d, "start", regs[r].fns[1].id) # {})
                                <=> (regs[r].router[tr[f].ctx] = Key("a"))
                          /\ (Pos(d, "start", regs[r].fns[2].id) # {})
                                <=> (regs[r].router[tr[f].ctx] = Key("b"))

\* handle was given an issues event with action opened; a middleware wrote
\* action closed, and the filter registered after it, whose predicate holds
\* of closed issues only, ran its middleware
C16_Witness ==
    \E r1, r2 \in DOMAIN regs :
        /\ regs[r1].op = "use" /\ regs[r2].op = "filter" /\ r1 < r2
        /\ run["d1"].status = "done"
        /\ run["d1"].given = CtxOpened
        /\ Pos("d1", "set", regs[r1].fns[1].id) # {}
        /\ ~EvalPred(regs[r2].predicate, run["d1"].given)
        /\ \E f \in Pos("d1", "factory", regs[r2].node) :
              run["d1"].trace[f].ctx = CtxClosed
        /\ Pos("d1", "start", regs[r2].fns[1].id) # {}

\* call q is the first registration made on the composer call r returned
FirstOnChild(r, q) ==
    /\ regs[q].this = regs[r].ret
    /\ \A m \in 1..(q - 1) : regs[m].this # regs[r].ret

\* the predicate a filter or an on node evaluates
NodePredicate(r) ==
    IF regs[r].op = "on" THEN OnPred(regs[r].queries) ELSE regs[r].predicate

\* the functions registered on the parent of call r, after call r
ParentLater(r) ==
    UNION {FnIds(z) : z \in {z \in DOMAIN regs : z > r /\ regs[z].this = regs[r].this}}

(***************************************************************************)
(* C17.  The composer use, filter, on or errorBoundary returned stays      *)
(* connected to its parent: middleware registered on it afterwards by use  *)
(* runs in every later dispatch that gets to the end of the child's        *)
(* existing middleware (it starts when, and only when, the last of them    *)
(* invokes its continuation; for a child without middleware, when the      *)
(* filter or on node selects it or the boundary is entered), after the     *)
(* child's existing middleware and before anything the parent registered   *)
(* after the child.                                                        *)
(***************************************************************************)
C17_ChildStaysConnected ==
    \A d \in DispatchIds : \A r, q \in DOMAIN regs :
        ( /\ Finished(d)
          /\ regs[r].op \in {"use", "filter", "on", "errorBoundary"}
          /\ FirstOnChild(r, q)
          /\ regs[q].op = "use" /\ regs[q].fns # <<>> ) =>
            LET y == regs[q].fns[1].id
                tr == run[d].trace
            IN
            /\ Cardinality(Pos(d, "start", y)) <= 1
            /\ IF regs[r].fns # <<>>
               THEN LET m == regs[r].fns[Len(regs[r].fns)].id IN
                    /\ (Pos(d, "start", y) # {}) <=> (Pos(d, "next", m) # {})
                    /\ \A j \in Pos(d, "start", y) : tr[j - 1].e = "next" /\ tr[j - 1].who = m
               ELSE CASE regs[r].op = "errorBoundary" ->
                           (Pos(d, "start", y) # {})
                              <=> (Pos(d, "boundary", regs[r].node) # {})
                      [] regs[r].op \in {"filter", "on"} ->
                           (Pos(d, "start", y) # {})
                              <=> /\ Pos(d, "factory", regs[r].node) # {}
                                  /\ EvalPred(NodePredicate(r), run[d].given)
                      [] OTHER ->
                           (regs[r].this = Root /\ r = 1) => Pos(d, "start", y) # {}
            /\ \A x \in FnIds(r) : StartsBefore(d, x, y)
            /\ \A z \in ParentLater(r) : StartsBefore(d, y, z)

\* c = root.filter(p, M); root.use(B); c.use(C), and a dispatch of which p
\* holds: M, then C, then B started
C17_Witness ==
    /\ Len(regs) = 3
    /\ regs[1].op = "filter" /\ regs[1].this = Root
    /\ regs[2].op = "use" /\ regs[2].this = Root /\ regs[2].fns # <<>>
    /\ regs[3].op = "use" /\ regs[3].this = regs[1].ret /\ regs[3].fns # <<>>
    /\ run["d1"].status = "done"
    /\ \E m \in Pos("d1", "start", regs[1].fns[1].id),
          c \in Pos("d1", "start", regs[3].fns[1].id),
          b \in Pos("d1", "start", regs[2].fns[1].id) : m < c /\ c < b

(***************************************************************************)
(* C18.  Two dispatches with distinct contexts through the same tree,      *)
(* their steps interleaved in any way: each ends exactly as it does when   *)
(* it runs alone (the same functions started, continued and stopped, the   *)
(* same outcome), and with every middleware invoking its continuation once *)
(* no double-continuation error is raised in either.                       *)
(***************************************************************************)
C18_Independent ==
    \A d \in DispatchIds :
        Finished(d) =>
           /\ run[d] = handle(handler, Root, run[d].given)
           /\ NoDoubleNext(d)

\* both dispatches are in progress and in both the first middleware of the
\* tree has invoked its continuation
C18_Witness ==
    /\ regs # <<>> /\ regs[1].op = "use"
    /\ run["d1"].status = "running" /\ run["d2"].status = "running"
    /\ run["d1"].given # run["d2"].given
    /\ Pos("d1", "next", regs[1].fns[1].id) # {}
    /\ Pos("d2", "next", regs[1].fns[1].id) # {}
    /\ \E i \in DOMAIN run["d1"].flags : run["d1"].flags[i]
    /\ \E i \in DOMAIN run["d2"].flags : run["d2"].flags[i]

\* the functions that run inside boundary b: those registered in its guarded
\* subtree, and its error handler
Inside(b) ==
    {x \in Registered : b \in Around(x)} \cup {regs[b].errorHandler.id}

(***************************************************************************)
(* C19.  The middleware after an errorBoundary starts only when the        *)
(* boundary invokes its outer continuation, which it does once the guarded *)
(* subtree (or, after a throw, the handler) has finished: the guarded      *)
(* middleware's own invocation of its continuation only returns to it, and *)
(* from the outer continuation on nothing inside the boundary runs any     *)
(* more.  So a failure thrown by the middleware after the boundary is not  *)
(* handed to the boundary's handler, and with no boundary around that      *)
(* middleware it is what handle raises.                                    *)
(***************************************************************************)
C19_DownstreamAfterBoundary ==
    \A d \in DispatchIds : \A b \in DOMAIN regs :
        (Finished(d) /\ IsBoundary(b)) =>
            LET tr == run[d].trace
                outer == Pos(d, "outer", regs[b].node)
            IN
            /\ \A c \in Pos(d, "cont", regs[b].node) :
                  /\ c < Len(tr)
                  /\ tr[c + 1].e # "start"
                  /\ tr[c - 1].e = "next" =>
                        /\ tr[c + 1].who = tr[c - 1].who
                        /\ tr[c + 1].e \in {"end", "throw", "next"}
            /\ \A o \in outer :
                  /\ \E c \in Pos(d, "cont", regs[b].node) : c < o
                  /\ \A j \in DOMAIN tr : j > o => tr[j].who \notin Inside(b)
            /\ \A u \in After(b) :
                  /\ \A s \in Pos(d, "start", u) : tr[s - 1].e = "outer" /\ s - 1 \in outer
                  /\ \A t \in Pos(d, "throw", u) :
                        Nearest(u) = 0 =>
                           run[d].status = "failed" /\ run[d].error = tr[t].val

\* the guarded middleware invoked its continuation and returned, then the
\* boundary went on to the middleware after it, which threw: the handler
\* was not invoked and the dispatch failed with that value
C19_Witness ==
    \E b \in DOMAIN regs : \E g \in FnIds(b) : \E u \in After(b) :
        /\ IsBoundary(b)
        /\ \E c \in Pos("d1", "cont", regs[b].node), e \in Pos("d1", "end", g),
              o \in Pos("d1", "outer", regs[b].node), s \in Pos("d1", "start", u),
              t \in Pos("d1", "throw", u) :
                 /\ c < e /\ e < o /\ o < s /\ s < t
                 /\ run["d1"].error = run["d1"].trace[t].val
        /\ run["d1"].status = "failed"
        /\ Pos("d1", "handler", regs[b].errorHandler.id) = {}

\* the body of registered middleware x
BodyOf(x) ==
    LET r == FnReg(x)
        i == CHOOSE i \in DOMAIN regs[r].fns : regs[r].fns[i].id = x
    IN regs[r].fns[i].body

\* x awaits its continuation inside a try statement
Tries(x) == \E i \in DOMAIN BodyOf(x) : BodyOf(x)[i].op = "trynext"

\* the invocation at place n of the trace was accepted (not refused as a second one)
Accepted(d, n) ==
    ~( /\ n < Len(run[d].trace)
       /\ run[d].trace[n + 1].e = "throw"
       /\ run[d].trace[n + 1].who = run[d].trace[n].who
       /\ IsDoubleNext(run[d].trace[n + 1].val) )

(***************************************************************************)
(* C20.  Middleware x invoked its continuation at place n of the trace and *)
(* awaits it.  The code of x that follows (its next event, at place p)     *)
(* runs only when everything started in between has finished: each         *)
(* function started between n and p has returned, or a failure thrown      *)
(* after its start ended it.  A failure thrown in between and caught by no *)
(* one surfaces in that call: x goes on only if it awaits in a try         *)
(* statement, and then with the value thrown; otherwise x is never resumed *)
(* and the failure goes further out.                                       *)
(***************************************************************************)
C20_ContinuationAwaits ==
    \A d \in DispatchIds : \A x \in Registered : \A n \in Pos(d, "next", x) :
        (Finished(d) /\ Accepted(d, n)) =>
            LET tr == run[d].trace
                later == {j \in DOMAIN tr : j > n /\ tr[j].who = x}
            IN
            IF later = {}
            THEN /\ ~Tries(x)
                 /\ \E t \in Throws(d) : t > n
            ELSE LET p == CHOOSE j \in later : \A k \in later : j <= k
                     between == (n + 1)..(p - 1)
                 IN
                 /\ \A s \in between :
                       tr[s].e = "start" =>
                          \E k \in between :
                             /\ k > s
                             /\ \/ tr[k].e = "end" /\ tr[k].who = tr[s].who
                                \/ tr[k].e = "throw"
                 /\ IF tr[p].e = "caught"
                    THEN /\ Tries(x)
                         /\ \E t \in between :
                               tr[t].e = "throw" /\ tr[t].val = tr[p].val
                    ELSE \A t \in between :
                            tr[t].e = "throw" =>
                               \E c \in between :
                                  c > t /\ tr[c].e = "caught" /\ tr[c].val = tr[t].val

\* A continues and then writes the payload, B awaits its continuation in a
\* try statement, C throws: the value surfaced in B's call, B returned, and
\* only then A wrote the payload
C20_Witness ==
    /\ Len(regs) = 3
    /\ \A r \in 1..3 : regs[r].this = Root /\ Len(regs[r].fns) = 1
    /\ run["d1"].status = "done"
    /\ LET a == regs[1].fns[1].id
           b == regs[2].fns[1].id
           c == regs[3].fns[1].id
       IN \E na \in Pos("d1", "next", a), nb \in Pos("d1", "next", b),
             tc \in Pos("d1", "throw", c), cb \in Pos("d1", "caught", b),
             eb \in Pos("d1", "end", b), sa \in Pos("d1", "set", a) :
                /\ na < nb /\ nb < tc /\ tc < cb /\ cb < eb /\ eb < sa
                /\ run["d1"].trace[cb].val = run["d1"].trace[tc].val

====
